---- MODULE Spec2Model ----
(***************************************************************************)
(* Model of backend/src/routes/interview.ts: the in-memory session         *)
(* registry (conversationHistory), the POST /chat handler with its         *)
(* suspension points, and the POST /reset handler.                         *)
(*                                                                         *)
(* JavaScript arrays are objects with identity: a handler that is          *)
(* suspended at the provider call keeps a reference to the array it got    *)
(* from the registry, while a reset or a truncation makes the registry     *)
(* point somewhere else.  The model therefore keeps a heap of arrays and   *)
(* lets both the registry and the suspended handlers hold array ids.       *)
(***************************************************************************)
EXTENDS Integers, Sequences, FiniteSets, TLC

\* ------------------------------------------------------------------ bounds
MaxInflight == 2      \* handler activations that can be suspended at once
MaxRequests == 2      \* chat requests per behaviour
MaxResets == 1        \* reset requests per behaviour
MaxCalls == 25        \* sequential chat calls explored by SpecSeq
MaxIORequests == 2    \* sequential chat requests explored by SpecIO
MaxLiveRequests == 2  \* sequential chat requests explored by SpecLive
MaxRaceRequests == 3  \* chat requests explored by SpecRace
MaxMessages == 3      \* messages delivered to the avatar
MaxTextLen == 3       \* characters of the texts given to generateLipSync

\* ------------------------------------------------------- program constants
MaxHistory == 21      \* history.length > 21
KeepLast == 20        \* history.slice(-20)

DEFAULT_MODEL == "llama-3.3-70b-versatile"
INTERVIEWER_SYSTEM_PROMPT == "You are an expert technical interviewer named Optimus ..."
GREETING == "Hi, I'd like to start a mock interview session."
NO_KEY_TEXT == "AI interview is not configured. Please add GROQ_API_KEY to your environment variables."
TROUBLE_TEXT == "I'm having trouble connecting right now. Please try again in a moment."

\* --------------------------------------------------------- JavaScript values
\* A JavaScript value is a record [t, v]: its type tag and, for strings and
\* numbers, its literal text.
Undefined == [t |-> "undefined", v |-> ""]
JNull == [t |-> "null", v |-> ""]
Str(s) == [t |-> "string", v |-> s]
Num(s) == [t |-> "number", v |-> s]

\* ToBoolean, as used by `x || y`, `x && y` and `!x`.
Truthy(x) ==
    CASE x.t = "undefined" -> FALSE
      [] x.t = "null" -> FALSE
      [] x.t = "string" -> x.v # ""
      [] x.t = "number" -> x.v # "0"
      [] OTHER -> TRUE

\* String.prototype.trim on the message strings the model sends.
Trim(s) ==
    CASE s = " " -> ""
      [] s = "  " -> ""
      [] s = " hi " -> "hi"
      [] OTHER -> s

\* ------------------------------------------------------------ request body
\* A raw request body: json says what c.req.json() does with it ("invalid":
\* it rejects; "null": it resolves to null; "number": it resolves to a
\* primitive; "object": it resolves to an object with the two fields).
RawBody(j, m, s) == [json |-> j, message |-> m, sessionId |-> s]
EmptyObject == RawBody("object", Undefined, Undefined)

\* await c.req.json().catch(() => ({}))
ReqJson(raw) == IF raw.json = "invalid" THEN EmptyObject ELSE raw

\* Reading a property of the parsed body throws a TypeError when it is null.
BodyThrows(body) == body.json = "null"

\* body.message / body.sessionId; a primitive has neither property.
BodyProp(body, f) ==
    IF body.json = "object"
    THEN (IF f = "message" THEN body.message ELSE body.sessionId)
    ELSE Undefined

\* (body).sessionId || "default"
ResolveSessionId(body) ==
    LET s == BodyProp(body, "sessionId")
    IN IF Truthy(s) THEN s.v ELSE "default"

SessionIds == {"default", "s1"}

\* ------------------------------------------------------------- transcripts
Turn(r, c) == [role |-> r, content |-> c]
SystemTurn == Turn("system", INTERVIEWER_SYSTEM_PROMPT)

\* SliceLast taking the first n turns after the head instead of the last n.
SliceFirst(h, n) ==
    IF Len(h) <= n THEN h ELSE SubSeq(h, 2, n + 1)

\* history.slice(-n)
SliceLast(h, n) ==
    IF Len(h) <= n THEN h ELSE SubSeq(h, Len(h) - n + 1, Len(h))

\* Truncated without re-attaching the system prompt: the last 21 turns.
TruncatedNoSystem(h) == SliceLast(h, KeepLast + 1)

\* [systemPrompt, ...history.slice(-20)] with systemPrompt = history[0]
Truncated(h) == <<h[1]>> \o SliceLast(h, KeepLast)

\* AssistantTurn keeping the text of the parsed reply instead of the raw reply.
AssistantTurnParsedText(aiContent, parsed) == Turn("assistant", parsed.text.v)

\* line 193: history.push({ role: "assistant", content: aiContent })
AssistantTurn(aiContent, parsed) == Turn("assistant", aiContent)

\* conversationHistory.delete removing every session instead of one.
DeletedAll(reg, sid) == [s \in DOMAIN reg |-> 0]

\* line 289: conversationHistory.delete(sessionId)
Deleted(reg, sid) == [reg EXCEPT ![sid] = 0]

\* userMessage.trim() throws when userMessage is truthy and not a string.
UserMessageThrows(m) == Truthy(m) /\ m.t # "string"

\* UserTurnContent without the trim: any truthy message is pushed as it is.
UserTurnContentNoTrim(m) ==
    IF Truthy(m) THEN m.v ELSE GREETING

\* The content of the user turn pushed at lines 126-134.
UserTurnContent(m) ==
    IF Truthy(m) /\ Trim(m.v) # "" THEN m.v ELSE GREETING

\* SelectModel with the configured default taking precedence over the query.
SelectModelEnvFirst(queryModel, envModel) ==
    IF Truthy(envModel) THEN envModel.v
    ELSE IF Truthy(queryModel) THEN queryModel.v
    ELSE DEFAULT_MODEL

\* queryModel || c.env.INTERVIEW_MODEL || DEFAULT_MODEL
SelectModel(queryModel, envModel) ==
    IF Truthy(queryModel) THEN queryModel.v
    ELSE IF Truthy(envModel) THEN envModel.v
    ELSE DEFAULT_MODEL

\* ---------------------------------------------------------- provider reply
\* What JSON.parse(aiContent) yields for the reply contents the model's
\* provider sends: threw, or the parsed value with the three properties the
\* handler reads (Undefined when the value has no such property).  Reading a
\* property of null throws; a number or an empty object has none of them.
Parsed(t, x, f, a) == [t |-> t, text |-> x, facialExpression |-> f, animation |-> a]
ParseThrew == [threw |-> TRUE, val |-> Parsed("none", Undefined, Undefined, Undefined)]
ParseOk(p) == [threw |-> FALSE, val |-> p]

C_PLAIN == "Good job!"
C_EMPTY == ""
C_NULL == "null"
C_NUMBER == "42"
C_NOTEXT == "{}"
C_TEXTONLY == "{\"text\":\"Tell me about yourself.\"}"
C_FULL == "{\"text\":\"Great answer!\",\"facialExpression\":\"smile\",\"animation\":\"Talking_0\"}"
C_ODD == "{\"text\":\"Hmm.\",\"facialExpression\":\"angry\",\"animation\":\"Dance\"}"

JSONParse(c) ==
    CASE c = C_NULL -> ParseOk(Parsed("null", Undefined, Undefined, Undefined))
      [] c = C_NUMBER -> ParseOk(Parsed("number", Undefined, Undefined, Undefined))
      [] c = C_NOTEXT -> ParseOk(Parsed("object", Undefined, Undefined, Undefined))
      [] c = C_TEXTONLY ->
            ParseOk(Parsed("object", Str("Tell me about yourself."), Undefined, Undefined))
      [] c = C_FULL ->
            ParseOk(Parsed("object", Str("Great answer!"), Str("smile"), Str("Talking_0")))
      [] c = C_ODD ->
            ParseOk(Parsed("object", Str("Hmm."), Str("angry"), Str("Dance")))
      [] OTHER -> ParseThrew

\* try { parsed = JSON.parse(aiContent) } catch { parsed = {text: aiContent, ...} }
ParseReply(aiContent) ==
    LET p == JSONParse(aiContent)
    IN IF p.threw
       THEN Parsed("object", Str(aiContent), Str("default"), Str("Talking_1"))
       ELSE p.val

\* generateLipSync(parsed.text) throws when parsed is null (the property
\* read) or when parsed.text is not a string (text.split is not a function).
LipSyncThrows(parsed) == parsed.t = "null" \/ parsed.text.t # "string"

\* The body of the provider's response as response.json() delivers it:
\* "unreadable" (the promise rejects), "nochoices" (an object without a
\* choices array), "emptychoices" (choices: []), or "content" with
\* choices[0].message.content = content.
Data(k, c, m) == [kind |-> k, content |-> c, model |-> m]

\* data.choices[0] throws when data.choices is undefined.
DataThrows(data) == data.kind \in {"unreadable", "nochoices"}

\* data.choices[0]?.message?.content || ""
AiContent(data) ==
    IF data.kind = "content" /\ Truthy(data.content) THEN data.content.v ELSE ""

\* ----------------------------------------------------------------- responses
Message(x, f, a) == [text |-> x, facialExpression |-> f, animation |-> a]
Response(st, msgs, err, m) == [status |-> st, messages |-> msgs, error |-> err, model |-> m]
NoResponse == Response(0, <<>>, FALSE, "")

\* The no-credential reply sent as an error instead.
NoKeyResponseAsError == Response(500, <<Message(NO_KEY_TEXT, "sad", "Idle")>>, TRUE, "")

\* lines 97-107: c.json({messages: [...]}) with the default status 200
NoKeyResponse == Response(200, <<Message(NO_KEY_TEXT, "sad", "Idle")>>, FALSE, "")

\* lines 221-235: c.json({messages: [...], error: String(error)}, 500)
CatchResponse == Response(500, <<Message(TROUBLE_TEXT, "sad", "Idle")>>, TRUE, "")

\* lines 207-218
SuccessResponse(parsed, m) ==
    Response(200,
             <<Message(parsed.text.v,
                       IF Truthy(parsed.facialExpression)
                       THEN parsed.facialExpression.v ELSE "default",
                       IF Truthy(parsed.animation)
                       THEN parsed.animation.v ELSE "Talking_1")>>,
             FALSE, m)

\* ------------------------------------------------------------------ lip sync
\* Texts are sequences of characters.  text.split(" "): the words between
\* the spaces, empty words included; the empty text gives one empty word.
RECURSIVE Split(_)
Split(text) ==
    IF \A k \in 1..Len(text) : text[k] # " " THEN <<text>>
    ELSE LET k == CHOOSE j \in 1..Len(text) :
                      text[j] = " " /\ \A l \in 1..(j - 1) : text[l] # " "
         IN <<SubSeq(text, 1, k - 1)>> \o Split(SubSeq(text, k + 1, Len(text)))

\* line 58
Visemes == <<"A", "B", "C", "D", "E", "F", "G", "H", "X">>

\* Times are kept in milliseconds.  Rounding to tenths of a second instead
\* of hundredths, in hundredths of a second.
RoundTenths(ms) == ((ms + 50) \div 100) * 10

\* Math.round(t * 100) / 100, in hundredths of a second.
RoundHundredths(ms) == (ms + 5) \div 10

\* line 73: currentTime += 0.1
WordPause == 100

\* lines 66-70: the cue pushed at currentTime for a character of duration d.
Cue(currentTime, d, v) ==
    [start |-> RoundHundredths(currentTime),
     end |-> RoundHundredths(currentTime + d),
     value |-> v]

NoLip == [pc |-> "idle", text |-> <<>>, words |-> <<>>, w |-> 0, i |-> 0,
          currentTime |-> 0, cues |-> <<>>]

\* lines 58-61: the call's locals before the loops.
LipCall(text) ==
    [pc |-> "loop", text |-> text, words |-> Split(text), w |-> 1, i |-> 0,
     currentTime |-> 0, cues |-> <<>>]

\* -------------------------------------------------------------------- avatar
\* The InterviewAvatar component (README.md lines 165-293).  Messages are
\* numbered in the order they are delivered; 0 is the null message.  An
\* utterance, a timer and an event carry the number of the message whose
\* effect created them.
NoAvatar ==
    [tts |-> TRUE,            \* "speechSynthesis" in window
     message |-> 0,           \* the message prop
     text |-> <<>>,           \* message.text of each delivered message
     played |-> <<>>,         \* onMessagePlayed calls made for each message
     cleanup |-> "none",      \* what the last effect returned
     speakTimers |-> <<>>,    \* pending setTimeout(speak, 300), oldest first
     fallbackTimer |-> 0,     \* pending fallback setTimeout
     queue |-> <<>>,          \* utterances given to speechSynthesis.speak
     started |-> FALSE,       \* the head of the queue has fired onstart
     events |-> <<>>,         \* error events of cancelled utterances, not yet dispatched
     isSpeaking |-> FALSE]

\* onMessagePlayedRef.current() called from a callback made for message k.
OnMessagePlayed(a, k) == [a EXCEPT !.played[k] = @ + 1]

\* window.speechSynthesis.cancel() (lines 231, 290): every utterance is removed from the
\* queue; each removed utterance is sent an error event (canceled or
\* interrupted), dispatched later.
Cancel(a) ==
    [a EXCEPT !.events = @ \o a.queue, !.queue = <<>>, !.started = FALSE]

\* The cleanup the previous effect returned: lines 285 and 288-292.
Cleanup(a) ==
    CASE a.cleanup = "cancel" -> Cancel(a)
      [] a.cleanup = "clear" -> [a EXCEPT !.fallbackTimer = 0]
      [] OTHER -> a

\* The body of useEffect(..., [message]), lines 217-293, run for a.message.
Effect(a) ==
    LET k == a.message
    IN IF k = 0 THEN [a EXCEPT !.isSpeaking = FALSE, !.cleanup = "none"]
       ELSE IF a.text[k] = "" THEN [OnMessagePlayed(a, k) EXCEPT !.cleanup = "none"]
       ELSE IF a.tts
            THEN [Cancel(a) EXCEPT !.speakTimers = Append(@, k), !.cleanup = "cancel"]
            ELSE [a EXCEPT !.fallbackTimer = k, !.cleanup = "clear"]

\* --------------------------------------------------------------------- state
Reqs == 1..MaxInflight
ArrayIds == 1..(Cardinality(SessionIds) + MaxInflight + 1)

VARIABLES
    env,                  \* c.env: GROQ_API_KEY and INTERVIEW_MODEL
    conversationHistory,  \* the Map: session id -> array id, 0 when absent
    heap,                 \* array id -> the array's turns
    req,                  \* the chat handler activations
    lastReset,            \* outcome of the latest POST /reset
    resetSince,           \* session id -> reset and not chatted on since
    recent,               \* session id -> the last KeepLast turns pushed for it
    nchat,                \* chat requests received
    nreset,               \* reset requests received
    lip,                  \* a generateLipSync call: its argument, locals and cues
    avatar                \* the InterviewAvatar component, its timers and the speech queue

vars == <<env, conversationHistory, heap, req, lastReset, resetSince, recent, nchat,
          nreset, lip, avatar>>

\* A handler activation: its position, its locals, and its response.
\* pc: "idle" (no request yet), "fetch" (suspended at await fetch), "json"
\* (suspended at await response.json()), "done" (response returned).
\* queryModel is c.req.query("model"); userContent is the content of the
\* user turn the activation pushed; resetDuring says that a reset of its
\* session ran while it was suspended.
IdleReq ==
    [pc |-> "idle", sessionId |-> "", userMessage |-> Undefined, history |-> 0,
     queryModel |-> Undefined, model |-> "", calls |-> 0, fetched |-> "none",
     userContent |-> "", aiContent |-> Undefined, resetDuring |-> FALSE,
     resp |-> NoResponse]

NoReset == [status |-> 0, success |-> FALSE, sessionId |-> ""]

Suspended(rq) == rq.pc \in {"fetch", "json"}
Quiet == \A r \in Reqs : ~Suspended(req[r])

\* The observer's record of the turns pushed for a session: t is added and
\* only the last KeepLast are remembered.
Pushed(log, t) ==
    LET l == Append(log, t)
    IN IF Len(l) > KeepLast THEN Tail(l) ELSE l

\* Arrays something still points to; the rest is garbage and is collected.
Referenced(reg, rqs) ==
    ({reg[s] : s \in SessionIds} \cup {rqs[r].history : r \in Reqs}) \ {0}

Collect(hp, reg, rqs) ==
    [a \in ArrayIds |-> IF a \in Referenced(reg, rqs) THEN hp[a] ELSE <<>>]

FreshId ==
    CHOOSE a \in ArrayIds :
        /\ a \notin Referenced(conversationHistory, req)
        /\ \A b \in ArrayIds : b < a => b \in Referenced(conversationHistory, req)

\* The transcript registered for session s (<<>> when there is none).
Transcript(s) ==
    IF conversationHistory[s] = 0 THEN <<>> ELSE heap[conversationHistory[s]]

\* A handler that has returned: its locals are gone, its response stays
\* on record (with the session it addressed, the provider calls it made, how
\* the fetch settled, the user turn it pushed and the reply content it read).
Returned(rq, resp) ==
    [rq EXCEPT !.pc = "done", !.history = 0, !.userMessage = Undefined,
               !.queryModel = Undefined, !.model = "", !.resetDuring = FALSE,
               !.resp = resp]

\* The error leaves the handler and no response is sent.
Rethrown(rq) == [Returned(rq, NoResponse) EXCEPT !.pc = "failed"]

\* The handler's catch block (lines 219-236): the 500 fallback is sent.
Caught(rq) == Returned(rq, CatchResponse)

\* Activations are interchangeable: a new request takes the first one that
\* is not suspended.
FreeSlot(r) ==
    /\ req[r].pc \in {"idle", "done"}
    /\ \A q \in Reqs : q < r => req[q].pc \notin {"idle", "done"}

\* ProviderNotOk with one more attempt at the provider before giving up.
ProviderNotOkRetry(rq) == Caught([rq EXCEPT !.fetched = "notok", !.calls = @ + 1])

\* lines 160-164: the provider answered with a non-success status.
ProviderNotOk(rq) == Caught([rq EXCEPT !.fetched = "notok"])

\* ------------------------------------------------------------------- actions
\* POST /chat without a credential (lines 93-108).
\* ChatNoKey with the credential test placed after the session resolution
\* of lines 118-122: the session is created before the handler returns.
ChatNoKeyAfterSession(r) ==
    /\ FreeSlot(r)
    /\ ~Truthy(env.GROQ_API_KEY)
    /\ req' = [req EXCEPT ![r] = Returned(IdleReq, NoKeyResponse)]
    /\ nchat' = nchat + 1
    /\ IF conversationHistory["default"] = 0
       THEN /\ conversationHistory' = [conversationHistory EXCEPT !["default"] = FreshId]
            /\ heap' = [heap EXCEPT ![FreshId] = <<SystemTurn>>]
       ELSE UNCHANGED <<conversationHistory, heap>>
    /\ UNCHANGED <<env, lastReset, resetSince, recent, nreset, lip, avatar>>

ChatNoKey(r) ==
    /\ FreeSlot(r)
    /\ ~Truthy(env.GROQ_API_KEY)
    /\ req' = [req EXCEPT ![r] = Returned(IdleReq, NoKeyResponse)]
    /\ nchat' = nchat + 1
    /\ UNCHANGED <<env, conversationHistory, heap, lastReset, resetSince, recent, nreset, lip, avatar>>

\* POST /chat from the body parse up to the fetch call (lines 110-158).
ChatBegin(r, raw, queryModel) ==
    /\ FreeSlot(r)
    /\ Truthy(env.GROQ_API_KEY)
    /\ nchat' = nchat + 1
    /\ LET body == ReqJson(raw)
       IN IF BodyThrows(body)
          THEN /\ req' = [req EXCEPT ![r] = Caught(IdleReq)]
               /\ UNCHANGED <<conversationHistory, heap, resetSince, recent>>
          ELSE LET sid == ResolveSessionId(body)
                   m == BodyProp(body, "message")
                   has == conversationHistory[sid] # 0
                   id == IF has THEN conversationHistory[sid] ELSE FreshId
                   h0 == IF has THEN heap[id] ELSE <<SystemTurn>>
                   reg == [conversationHistory EXCEPT ![sid] = id]
                   rq == [IdleReq EXCEPT !.sessionId = sid, !.userMessage = m,
                                         !.queryModel = queryModel]
               IN /\ conversationHistory' = reg
                  /\ IF UserMessageThrows(m)
                     THEN /\ req' = [req EXCEPT ![r] = Caught(rq)]
                          /\ heap' = Collect([heap EXCEPT ![id] = h0], reg, req')
                          /\ UNCHANGED <<resetSince, recent>>
                     ELSE /\ req' = [req EXCEPT ![r] =
                                 [rq EXCEPT !.pc = "fetch", !.history = id, !.calls = 1,
                                     !.userContent = UserTurnContent(m),
                                     !.model = SelectModel(queryModel, env.INTERVIEW_MODEL)]]
                          /\ heap' = Collect(
                                 [heap EXCEPT ![id] =
                                     Append(h0, Turn("user", UserTurnContent(m)))],
                                 reg, req')
                          /\ resetSince' = [resetSince EXCEPT ![sid] = FALSE]
                          /\ recent' = [recent EXCEPT ![sid] =
                                 Pushed(@, Turn("user", UserTurnContent(m)))]
    /\ UNCHANGED <<env, lastReset, nreset, lip, avatar>>

\* await fetch(...) settles (lines 142-164): the promise rejects, or resolves
\* with a non-success status (the handler throws), or resolves with success.
FetchSettles(r, outcome) ==
    /\ req[r].pc = "fetch"
    /\ req' = [req EXCEPT ![r] =
                 CASE outcome = "ok" -> [req[r] EXCEPT !.pc = "json", !.fetched = "ok"]
                   [] outcome = "notok" -> ProviderNotOk(req[r])
                   [] OTHER -> Caught([req[r] EXCEPT !.fetched = "rejected"])]
    /\ heap' = Collect(heap, conversationHistory, req')
    /\ UNCHANGED <<env, conversationHistory, lastReset, resetSince, recent, nchat, nreset, lip, avatar>>

\* await response.json() settles, and the handler runs to its response
\* (lines 166-218, or the catch block).
JsonSettles(r, data) ==
    /\ req[r].pc = "json"
    /\ IF DataThrows(data)
       THEN /\ req' = [req EXCEPT ![r] = Caught(req[r])]
            /\ heap' = Collect(heap, conversationHistory, req')
            /\ UNCHANGED <<conversationHistory, recent>>
       ELSE LET aiContent == AiContent(data)
                parsed == ParseReply(aiContent)
                id == req[r].history
                h == Append(heap[id], AssistantTurn(aiContent, parsed))
                hp == [heap EXCEPT ![id] = h]
                rq == [req[r] EXCEPT !.aiContent = Str(aiContent)]
                over == Len(h) > MaxHistory
                new == FreshId
                reg == IF over
                       THEN [conversationHistory EXCEPT ![rq.sessionId] = new]
                       ELSE conversationHistory
                hp2 == IF over THEN [hp EXCEPT ![new] = Truncated(h)] ELSE hp
            IN /\ req' = [req EXCEPT ![r] =
                            IF LipSyncThrows(parsed)
                            THEN Caught(rq)
                            ELSE Returned(rq, SuccessResponse(parsed, data.model))]
               /\ conversationHistory' = reg
               /\ heap' = Collect(hp2, reg, req')
               /\ recent' = [recent EXCEPT ![rq.sessionId] =
                                Pushed(@, AssistantTurn(aiContent, parsed))]
    /\ UNCHANGED <<env, lastReset, resetSince, nchat, nreset, lip, avatar>>

\* POST /reset (lines 284-292).  Reading sessionId off a null body throws
\* outside any try block: the handler ends without its c.json response.
Reset(raw) ==
    /\ nreset' = nreset + 1
    /\ LET body == ReqJson(raw)
       IN IF BodyThrows(body)
          THEN /\ lastReset' = [status |-> 500, success |-> FALSE, sessionId |-> ""]
               /\ UNCHANGED <<conversationHistory, heap, req, resetSince, recent>>
          ELSE LET sid == ResolveSessionId(body)
                   reg == Deleted(conversationHistory, sid)
               IN /\ conversationHistory' = reg
                  /\ heap' = Collect(heap, reg, req)
                  /\ req' = [r \in Reqs |->
                               IF Suspended(req[r]) /\ req[r].sessionId = sid
                               THEN [req[r] EXCEPT !.resetDuring = TRUE]
                               ELSE req[r]]
                  /\ lastReset' = [status |-> 200, success |-> TRUE, sessionId |-> sid]
                  /\ resetSince' = [resetSince EXCEPT ![sid] = TRUE]
                  /\ recent' = [recent EXCEPT ![sid] = <<>>]
    /\ UNCHANGED <<env, nchat, lip, avatar>>

ChatVars == <<env, conversationHistory, heap, req, lastReset, resetSince, recent,
              nchat, nreset>>

\* lines 64-72: one turn of the inner loop; d is 0.08 + Math.random() * 0.04
\* and v is visemes[Math.floor(Math.random() * visemes.length)].
LipCue(d, v) ==
    /\ lip.pc = "loop"
    /\ lip.w <= Len(lip.words)
    /\ lip.i < Len(lip.words[lip.w])
    /\ lip' = [lip EXCEPT !.cues = Append(@, Cue(lip.currentTime, d, v)),
                          !.currentTime = @ + d,
                          !.i = @ + 1]
    /\ UNCHANGED <<ChatVars, avatar>>

\* line 73: the word is finished.
LipWordEnd ==
    /\ lip.pc = "loop"
    /\ lip.w <= Len(lip.words)
    /\ lip.i = Len(lip.words[lip.w])
    /\ lip' = [lip EXCEPT !.currentTime = @ + WordPause, !.w = @ + 1, !.i = 0]
    /\ UNCHANGED <<ChatVars, avatar>>

\* line 76: return { mouthCues: cues }
LipReturn ==
    /\ lip.pc = "loop"
    /\ lip.w > Len(lip.words)
    /\ lip' = [lip EXCEPT !.pc = "done"]
    /\ UNCHANGED <<ChatVars, avatar>>

\* useInterviewChat hands the component a new message object with the given
\* text: React runs the previous effect's cleanup and then the effect.
Deliver(text) ==
    /\ avatar' = Effect(Cleanup([avatar EXCEPT !.message = Len(avatar.text) + 1,
                                               !.text = Append(@, text),
                                               !.played = Append(@, 0)]))
    /\ UNCHANGED <<ChatVars, lip>>

\* The message becomes null (lines 218-221).
Clear ==
    /\ avatar.message # 0
    /\ avatar' = Effect(Cleanup([avatar EXCEPT !.message = 0]))
    /\ UNCHANGED <<ChatVars, lip>>

\* lines 275-277: the 300 ms timer fires, window.speechSynthesis.speak(utterance).
SpeakTimerFires ==
    /\ avatar.speakTimers # <<>>
    /\ avatar' = [avatar EXCEPT !.queue = Append(@, Head(avatar.speakTimers)),
                                !.speakTimers = Tail(@)]
    /\ UNCHANGED <<ChatVars, lip>>

\* lines 257-260: utterance.onstart
SpeechStarts ==
    /\ avatar.queue # <<>>
    /\ ~avatar.started
    /\ avatar' = [avatar EXCEPT !.started = TRUE, !.isSpeaking = TRUE]
    /\ UNCHANGED <<ChatVars, lip>>

\* lines 262-266: the utterance has been spoken, utterance.onend
SpeechEnds ==
    /\ avatar.queue # <<>>
    /\ avatar.started
    /\ avatar' = [OnMessagePlayed(avatar, Head(avatar.queue))
                     EXCEPT !.queue = Tail(@), !.started = FALSE, !.isSpeaking = FALSE]
    /\ UNCHANGED <<ChatVars, lip>>

\* lines 268-272: the synthesis of the utterance fails, utterance.onerror
SpeechFails ==
    /\ avatar.queue # <<>>
    /\ avatar' = [OnMessagePlayed(avatar, Head(avatar.queue))
                     EXCEPT !.queue = Tail(@), !.started = FALSE, !.isSpeaking = FALSE]
    /\ UNCHANGED <<ChatVars, lip>>

\* lines 268-272: utterance.onerror of a cancelled utterance
CancelledEvent ==
    /\ avatar.events # <<>>
    /\ avatar' = [OnMessagePlayed(avatar, Head(avatar.events))
                     EXCEPT !.events = Tail(@), !.isSpeaking = FALSE]
    /\ UNCHANGED <<ChatVars, lip>>

\* lines 282-284: the fallback timer fires
FallbackTimerFires ==
    /\ avatar.fallbackTimer # 0
    /\ avatar' = [OnMessagePlayed(avatar, avatar.fallbackTimer) EXCEPT !.fallbackTimer = 0]
    /\ UNCHANGED <<ChatVars, lip>>

\* ------------------------------------------------------------ specifications
\* The transcript of a session after k sequential successful exchanges
\* (message "hi", reply C_FULL), built with the handler's own steps.
RECURSIVE SeedTranscript(_)
SeedTranscript(k) ==
    IF k = 0 THEN <<SystemTurn>>
    ELSE LET h == SeedTranscript(k - 1)
                  \o <<Turn("user", UserTurnContent(Str("hi"))),
                       Turn("assistant", C_FULL)>>
         IN IF Len(h) > MaxHistory THEN Truncated(h) ELSE h

\* A worker that has just started (0), or whose "default" session has
\* already been through ten exchanges and holds a full transcript.
Seeds == {0, 10}

InitChat(keys, models, seeds) ==
    /\ env \in [GROQ_API_KEY : keys, INTERVIEW_MODEL : models]
    /\ \E k \in seeds :
          /\ conversationHistory =
                [s \in SessionIds |-> IF k > 0 /\ s = "default" THEN 1 ELSE 0]
          /\ heap = [a \in ArrayIds |->
                        IF k > 0 /\ a = 1 THEN SeedTranscript(k) ELSE <<>>]
          /\ recent = [s \in SessionIds |->
                          IF k > 0 /\ s = "default"
                          THEN Tail(SeedTranscript(k)) ELSE <<>>]
    /\ req = [r \in Reqs |-> IdleReq]
    /\ lastReset = NoReset
    /\ resetSince = [s \in SessionIds |-> FALSE]
    /\ nchat = 0
    /\ nreset = 0

\* No generateLipSync call and no avatar is followed on its own.
InitWith(keys, models, seeds) ==
    /\ InitChat(keys, models, seeds)
    /\ lip = NoLip
    /\ avatar = NoAvatar

\* Concurrent requests on two sessions.
ChatBodies ==
    { RawBody("invalid", Undefined, Undefined),
      RawBody("object", Str("hi"), Undefined),
      RawBody("object", Str("hi"), Str("s1")) }
ResetBodies ==
    { RawBody("invalid", Undefined, Undefined),
      RawBody("object", Undefined, Str("s1")),
      RawBody("null", Undefined, Undefined) }
FetchOutcomes == {"ok", "notok"}
Replies ==
    { Data("content", Str(C_FULL), DEFAULT_MODEL),
      Data("content", Str(C_NOTEXT), DEFAULT_MODEL) }

Init == InitWith({Str("gsk_key"), Str(""), Undefined}, {Undefined}, Seeds)

Next ==
    \/ \E r \in Reqs : nchat < MaxRequests /\ ChatNoKey(r)
    \/ \E r \in Reqs, raw \in ChatBodies :
          nchat < MaxRequests /\ ChatBegin(r, raw, Undefined)
    \/ \E r \in Reqs, o \in FetchOutcomes : FetchSettles(r, o)
    \/ \E r \in Reqs, d \in Replies : JsonSettles(r, d)
    \/ \E raw \in ResetBodies : nreset < MaxResets /\ Reset(raw)

Spec == Init /\ [][Next]_vars

\* Sequential successful calls on one fresh session: one request at a time,
\* the provider always answers, nobody resets.
SeqBodies ==
    { RawBody("invalid", Undefined, Undefined),
      RawBody("object", Str("hi"), Undefined) }
SeqReplies == { Data("content", Str(C_FULL), DEFAULT_MODEL) }

InitSeq == InitWith({Str("gsk_key")}, {Undefined}, {0})

NextSeq ==
    \/ \E raw \in SeqBodies :
          Quiet /\ nchat < MaxCalls /\ ChatBegin(1, raw, Undefined)
    \/ FetchSettles(1, "ok")
    \/ \E d \in SeqReplies : JsonSettles(1, d)

SpecSeq == InitSeq /\ [][NextSeq]_vars

\* One request at a time with every kind of request body, provider outcome
\* and reply content.
IOMessages ==
    { Undefined, JNull, Num("0"), Num("5"),
      Str(""), Str(" "), Str("  "), Str(" hi "), Str("hi") }
IOBodies ==
    { RawBody("invalid", Undefined, Undefined),
      RawBody("null", Undefined, Undefined),
      RawBody("number", Undefined, Undefined) }
    \cup { RawBody("object", m, sid) :
              m \in IOMessages, sid \in {Undefined, Str(""), Str("s1")} }
IOOutcomes == {"ok", "notok", "rejected"}
IOReplies ==
    { Data("unreadable", Undefined, ""),
      Data("nochoices", Undefined, ""),
      Data("emptychoices", Undefined, DEFAULT_MODEL),
      Data("content", JNull, DEFAULT_MODEL) }
    \cup { Data("content", Str(c), DEFAULT_MODEL) :
              c \in {C_PLAIN, C_EMPTY, C_NULL, C_NUMBER, C_NOTEXT,
                     C_TEXTONLY, C_FULL, C_ODD} }

InitIO == InitWith({Str("gsk_key")}, {Undefined}, {0})

NextIO ==
    \/ \E raw \in IOBodies :
          Quiet /\ nchat < MaxIORequests /\ ChatBegin(1, raw, Undefined)
    \/ \E o \in IOOutcomes : FetchSettles(1, o)
    \/ \E d \in IOReplies : JsonSettles(1, d)

SpecIO == InitIO /\ [][NextIO]_vars

\* One request at a time under every combination of the model query
\* parameter and the configured INTERVIEW_MODEL.
EnvModels == {Undefined, Str(""), Str("mixtral-8x7b-32768")}
QueryModels == {Undefined, Str(""), Str("llama-3.1-8b-instant")}

InitModel == InitWith({Str("gsk_key")}, EnvModels, {0})

NextModel ==
    \/ \E raw \in SeqBodies, q \in QueryModels :
          Quiet /\ nchat < MaxIORequests /\ ChatBegin(1, raw, q)
    \/ \E o \in FetchOutcomes : FetchSettles(1, o)
    \/ \E d \in SeqReplies : JsonSettles(1, d)

SpecModel == InitModel /\ [][NextModel]_vars

\* One request at a time, with and without the credential, a body for
\* every path through the handler's first part (unparseable, null, a message
\* that is not a string, a message with a session id), every provider
\* outcome and reply; the provider call and the reading of its body always
\* come back (await fetch, line 142; await response.json(), line 166).
LiveBodies ==
    { RawBody("invalid", Undefined, Undefined),
      RawBody("null", Undefined, Undefined),
      RawBody("object", Num("5"), Undefined),
      RawBody("object", Str("hi"), Str("s1")) }

InitLive == InitWith({Str("gsk_key"), Undefined}, {Undefined}, {0})

NextLive ==
    \/ Quiet /\ nchat < MaxLiveRequests /\ ChatNoKey(1)
    \/ \E raw \in LiveBodies :
          Quiet /\ nchat < MaxLiveRequests /\ ChatBegin(1, raw, Undefined)
    \/ \E o \in IOOutcomes : FetchSettles(1, o)
    \/ \E d \in IOReplies : JsonSettles(1, d)

SpecLive ==
    /\ InitLive
    /\ [][NextLive]_vars
    /\ WF_vars(\E o \in IOOutcomes : FetchSettles(1, o))
    /\ WF_vars(\E d \in IOReplies : JsonSettles(1, d))

\* Overlapping successful requests on the "default" session: the provider
\* always answers, with one of two reply contents, and nobody resets.
RaceReplies ==
    { Data("content", Str(C_TEXTONLY), DEFAULT_MODEL),
      Data("content", Str(C_PLAIN), DEFAULT_MODEL) }

InitRace == InitWith({Str("gsk_key")}, {Undefined}, Seeds)

NextRace ==
    \/ \E r \in Reqs, raw \in SeqBodies :
          nchat < MaxRaceRequests /\ ChatBegin(r, raw, Undefined)
    \/ \E r \in Reqs : FetchSettles(r, "ok")
    \/ \E r \in Reqs, d \in RaceReplies : JsonSettles(r, d)

SpecRace == InitRace /\ [][NextRace]_vars

\* generateLipSync on every text of at most MaxTextLen letters and spaces,
\* with durations across the range [80, 120) ms, among them ones that put
\* a time on a rounding boundary.
RECURSIVE TextsOfLen(_)
TextsOfLen(n) ==
    IF n = 0 THEN {<<>>}
    ELSE {Append(t, c) : t \in TextsOfLen(n - 1), c \in {"a", " "}}
Texts == UNION {TextsOfLen(n) : n \in 0..MaxTextLen}
Durations == {80, 85, 95, 119}
VisemeDraws == {1, 9}

InitLip ==
    /\ InitChat({Str("gsk_key")}, {Undefined}, {0})
    /\ lip \in {LipCall(text) : text \in Texts}
    /\ avatar = NoAvatar

NextLip ==
    \/ \E d \in Durations, k \in VisemeDraws : LipCue(d, Visemes[k])
    \/ LipWordEnd
    \/ LipReturn

SpecLip == InitLip /\ [][NextLip]_vars


\* The avatar, with and without speech synthesis in the browser, given up
\* to MaxMessages messages with empty and non-empty text at any moment.
MessageTexts == {"", "Tell me about yourself."}

InitAvatar ==
    /\ InitChat({Str("gsk_key")}, {Undefined}, {0})
    /\ lip = NoLip
    /\ avatar \in {[NoAvatar EXCEPT !.tts = b] : b \in BOOLEAN}

NextAvatar ==
    \/ \E text \in MessageTexts : Len(avatar.text) < MaxMessages /\ Deliver(text)
    \/ Clear
    \/ SpeakTimerFires
    \/ SpeechStarts
    \/ SpeechEnds
    \/ SpeechFails
    \/ CancelledEvent
    \/ FallbackTimerFires

SpecAvatar == InitAvatar /\ [][NextAvatar]_vars

\* -------------------------------------------------------------------- claims
Registered == {s \in SessionIds : conversationHistory[s] # 0}

\* A handler activation r returns its response in this step.
Completes(r) == req[r].pc # "done" /\ req'[r].pc = "done"

\* C1: every transcript held in the registry is non-empty and starts with
\* the fixed system instruction, whatever requests and resets were interleaved.
C1_SystemTurnFirst ==
    \A s \in Registered :
        /\ Len(Transcript(s)) >= 1
        /\ Transcript(s)[1] = SystemTurn

\* A truncation has replaced the registered array of "default" while a reset
\* was interleaved with the chat requests.
C1_Witness ==
    /\ conversationHistory["default"] # 0
    /\ Len(Transcript("default")) = MaxHistory
    /\ Transcript("default") # SeedTranscript(10)
    /\ Transcript("default")[1] = SystemTurn
    /\ nreset > 0

\* C2: when a chat request returns (success or the 500 fallback), the
\* transcript registered for its session has at most 21 turns.
C2_AtMost21AfterRequest ==
    [][\A r \in Reqs :
          (Completes(r) /\ req'[r].sessionId # "")
              => LET a == conversationHistory'[req'[r].sessionId]
                 IN a # 0 => Len(heap'[a]) <= MaxHistory]_vars

\* C3: after n sequential successful calls on a fresh session the transcript
\* has min(2n+1, 21) turns, it is the system turn followed by the most
\* recently pushed turns in their order, and 25 calls leave 21 turns.
C3_SequentialLength ==
    (Quiet /\ nchat > 0) =>
        /\ Len(Transcript("default")) =
              (IF 2 * nchat + 1 < MaxHistory THEN 2 * nchat + 1 ELSE MaxHistory)
        /\ Transcript("default") = <<SystemTurn>> \o recent["default"]
        /\ (2 * nchat + 1 > MaxHistory => Len(recent["default"]) = KeepLast)
        /\ (nchat = 25 => Len(Transcript("default")) = 21)

\* Twenty-five calls have completed and the transcript holds 21 turns.
C3_Witness ==
    /\ Quiet
    /\ nchat = 25
    /\ Len(Transcript("default")) = 21
    /\ \E i, j \in 2..21 :
          Transcript("default")[i].content = GREETING
          /\ Transcript("default")[j].content = "hi"

\* C4: in every registered transcript the turns after the system turn
\* alternate user, assistant, user, ...: no two adjacent turns have one role.
C4_RolesAlternate ==
    \A s \in Registered :
        \A i \in 2..Len(Transcript(s)) :
            /\ Transcript(s)[i].role \in {"user", "assistant"}
            /\ i < Len(Transcript(s)) =>
                  Transcript(s)[i].role # Transcript(s)[i + 1].role

\* A handler activation r pushes its user turn and calls the provider in
\* this step.
Appends(r) == req[r].pc # "fetch" /\ req'[r].pc = "fetch"

\* C5 as stated: the pushed user turn is the message verbatim when the
\* message is non-empty, the canned greeting when it is absent or empty, and
\* never the empty string.
C5_VerbatimWhenNonEmpty ==
    [][\A r \in Reqs :
          Appends(r) =>
              LET h == heap'[req'[r].history]
                  m == req'[r].userMessage
                  t == h[Len(h)]
              IN /\ t.role = "user"
                 /\ t.content # ""
                 /\ t.content = (IF m.t = "string" /\ m.v # "" THEN m.v ELSE GREETING)]_vars

\* Messages made of whitespace only.
BlankStrings == {"", " ", "  "}

\* C5 amended: the pushed user turn is the message verbatim when the message
\* is a string with a non-whitespace character, the canned greeting when it
\* is absent, empty, whitespace-only or another falsy value, and never the
\* empty string.
C5_VerbatimWhenNonBlank ==
    [][\A r \in Reqs :
          Appends(r) =>
              LET h == heap'[req'[r].history]
                  m == req'[r].userMessage
                  t == h[Len(h)]
              IN /\ t.role = "user"
                 /\ t.content # ""
                 /\ t.content = (IF m.t = "string" /\ m.v \notin BlankStrings
                                 THEN m.v ELSE GREETING)]_vars

\* A request whose message is a single space has pushed the greeting, and
\* one whose message is " hi " has pushed it untrimmed.
C5_Witness ==
    \E r \in Reqs :
        /\ req[r].pc = "fetch"
        /\ LET h == heap[req[r].history]
           IN \/ req[r].userMessage = Str(" ") /\ h[Len(h)].content = GREETING
              \/ req[r].userMessage = Str(" hi ") /\ h[Len(h)].content = " hi "

\* C6: the first chat request on a session after its reset supplies the
\* provider with exactly [system turn, its own user turn].
C6_FreshAfterReset ==
    [][\A r \in Reqs :
          (Appends(r) /\ resetSince[req'[r].sessionId]) =>
              LET h == heap'[req'[r].history]
              IN /\ Len(h) = 2
                 /\ h[1] = SystemTurn
                 /\ h[2].role = "user"]_vars

\* C7: every reset answers {success: true}, leaves the named session absent,
\* and changes nothing when the session was already absent.
C7_ResetAlwaysSucceeds ==
    [][nreset' # nreset =>
          /\ lastReset'.status = 200
          /\ lastReset'.success
          /\ conversationHistory'[lastReset'.sessionId] = 0
          /\ (conversationHistory[lastReset'.sessionId] = 0
                 => conversationHistory' = conversationHistory)]_vars

\* C8: without a credential every chat request is answered with status 200
\* and one message with facialExpression "sad" and animation "Idle".
C8_NoKeyDegraded ==
    ~Truthy(env.GROQ_API_KEY) =>
        \A r \in Reqs :
            req[r].pc = "done" =>
                /\ req[r].resp.status = 200
                /\ ~req[r].resp.error
                /\ Len(req[r].resp.messages) = 1
                /\ req[r].resp.messages[1].facialExpression = "sad"
                /\ req[r].resp.messages[1].animation = "Idle"

\* A chat request has been answered while no credential is configured.
C8_Witness ==
    /\ ~Truthy(env.GROQ_API_KEY)
    /\ \E r \in Reqs : req[r].pc = "done" /\ req[r].resp.status = 200
    /\ nchat > 1

\* C9: a request whose provider call came back with a non-success status
\* returns 500 with one fallback message and an error field, after exactly
\* one provider call.
C9_NotOkIs500NoRetry ==
    \A r \in Reqs :
        (req[r].pc = "done" /\ req[r].fetched = "notok") =>
            /\ req[r].resp.status = 500
            /\ req[r].resp.error
            /\ req[r].resp.messages = <<Message(TROUBLE_TEXT, "sad", "Idle")>>
            /\ req[r].calls = 1

\* A request has returned after the provider answered with a non-success
\* status.
C9_Witness ==
    \E r \in Reqs :
        req[r].pc = "done" /\ req[r].fetched = "notok" /\ req[r].resp.status = 500

\* C10: once the provider call succeeded and a reply content was read, the
\* request returns success whatever the content, and a content that is not
\* JSON is wrapped with the default expression and animation.
C10_MalformedReplyNotAnError ==
    \A r \in Reqs :
        (req[r].pc = "done" /\ req[r].fetched = "ok" /\ req[r].aiContent.t = "string") =>
            /\ req[r].resp.status = 200
            /\ ~req[r].resp.error
            /\ JSONParse(req[r].aiContent.v).threw =>
                  req[r].resp.messages =
                      <<Message(req[r].aiContent.v, "default", "Talking_1")>>

FacialExpressions == {"smile", "default", "funnyFace", "sad"}
Animations == {"Talking_0", "Talking_1", "Talking_2", "Idle"}

\* C11: every message of every chat response has a facialExpression among
\* smile, default, funnyFace, sad and an animation among Talking_0,
\* Talking_1, Talking_2, Idle, whatever the provider's reply carries.
C11_ExpressionAndAnimationInEnum ==
    \A r \in Reqs :
        req[r].pc = "done" =>
            \A i \in 1..Len(req[r].resp.messages) :
                /\ req[r].resp.messages[i].facialExpression \in FacialExpressions
                /\ req[r].resp.messages[i].animation \in Animations

\* A value is present: a non-empty string.
Present(x) == x.t = "string" /\ x.v # ""

\* C12: the model sent to the provider is the model query parameter when
\* present, otherwise INTERVIEW_MODEL when set, otherwise
\* "llama-3.3-70b-versatile".
C12_ModelPrecedence ==
    \A r \in Reqs :
        Suspended(req[r]) =>
            req[r].model =
                (IF Present(req[r].queryModel) THEN req[r].queryModel.v
                 ELSE IF Present(env.INTERVIEW_MODEL) THEN env.INTERVIEW_MODEL.v
                 ELSE "llama-3.3-70b-versatile")

\* A provider call is under way for a request that named a model while a
\* different default is configured, and the query parameter's model was sent.
C12_Witness ==
    \E r \in Reqs :
        /\ req[r].pc = "fetch"
        /\ Present(req[r].queryModel)
        /\ Present(env.INTERVIEW_MODEL)
        /\ req[r].queryModel # env.INTERVIEW_MODEL
        /\ req[r].model = req[r].queryModel.v

\* The registration or the content of session b's transcript changes in
\* this step.
TranscriptChanges(b) ==
    \/ (conversationHistory[b] = 0) # (conversationHistory'[b] = 0)
    \/ /\ conversationHistory[b] # 0
       /\ conversationHistory'[b] # 0
       /\ heap[conversationHistory[b]] # heap'[conversationHistory'[b]]

\* This step belongs to a chat request or a reset addressed to session b.
AddressedTo(b) ==
    \/ \E r \in Reqs : req'[r] # req[r] /\ req'[r].sessionId = b
    \/ nreset' # nreset /\ lastReset'.sessionId = b

\* C13: a chat request or a reset addressed to one session never creates,
\* changes or removes the transcript registered for another session.
C13_OtherSessionsUntouched ==
    [][\A b \in SessionIds : TranscriptChanges(b) => AddressedTo(b)]_vars

\* Session "s1" was chatted on and then reset while "default" still holds
\* the transcript it started with.
C13_Witness ==
    /\ lastReset.success
    /\ lastReset.sessionId = "s1"
    /\ conversationHistory["s1"] = 0
    /\ Transcript("default") = SeedTranscript(10)
    /\ \E r \in Reqs :
          req[r].pc = "done" /\ req[r].sessionId = "s1" /\ req[r].resp.status = 200

\* C14: in every track generateLipSync builds, each cue starts before it
\* ends and cue starts never decrease; the empty text gives the empty track.
C14_LipSyncCuesOrdered ==
    /\ \A k \in 1..Len(lip.cues) : lip.cues[k].start < lip.cues[k].end
    /\ \A k \in 1..(Len(lip.cues) - 1) : lip.cues[k].start <= lip.cues[k + 1].start
    /\ (lip.pc = "done" /\ lip.text = <<>>) => lip.cues = <<>>

\* A returned track of three cues whose last cue starts on a time that
\* was rounded up.
C14_Witness ==
    /\ lip.pc = "done"
    /\ Len(lip.cues) = 3
    /\ lip.cues[3].start = 17

\* A JSON response with a status and a messages array of one message.
WellFormed(resp) ==
    /\ resp.status \in {200, 500}
    /\ Len(resp.messages) = 1
    /\ DOMAIN resp.messages[1] = {"text", "facialExpression", "animation"}

\* C15: every chat request, whatever its body, the credential and the
\* provider's outcome, eventually ends, and ends with one well-formed
\* response of one message; none stays unanswered or fails without one.
C15_EveryRequestAnswered ==
    /\ \A r \in Reqs : (req[r].pc \notin {"idle", "done"}) ~> (req[r].pc = "done")
    /\ [](\A r \in Reqs : req[r].pc = "done" => WellFormed(req[r].resp))

\* A second request answered from the catch block after the provider's
\* response arrived with a success status (its body then failed the handler).
C15_Witness ==
    /\ nchat = 2
    /\ req[1].pc = "done"
    /\ req[1].fetched = "ok"
    /\ req[1].resp = CatchResponse

\* The truncation policy: the first turn and the last twenty of h when h
\* has more than 21 turns, h itself otherwise.
Policy(h) ==
    IF Len(h) <= 21 THEN h
    ELSE [k \in 1..21 |-> IF k = 1 THEN h[1] ELSE h[Len(h) - 21 + k]]

\* C16: with one request at a time, a successful request adds exactly two
\* turns to its session's transcript: its user turn in the step that calls
\* the provider (nothing is dropped then), nothing while the provider call
\* is settling, and on return an assistant turn holding the provider's raw
\* reply content, after which the truncation policy is applied.
C16_UserThenRawAssistantThenTruncate ==
    [][\A r \in Reqs :
          LET s == req'[r].sessionId
              old == Transcript(s)
              new == IF conversationHistory'[s] = 0 THEN <<>>
                     ELSE heap'[conversationHistory'[s]]
          IN /\ Appends(r) =>
                   new = Append(IF old = <<>> THEN <<SystemTurn>> ELSE old,
                                Turn("user", req'[r].userContent))
             /\ (req[r].pc = "fetch" /\ req'[r].pc = "json") => new = old
             /\ (Completes(r) /\ req[r].pc = "json" /\ req'[r].resp.status = 200) =>
                   /\ req'[r].aiContent = Str(C_FULL)
                   /\ new = Policy(Append(old, Turn("assistant", req'[r].aiContent.v)))]_vars

\* The twelfth successful call has returned: its assistant turn is the last
\* turn and holds the raw reply, its user turn is the one before, and
\* truncation has run.
C16_Witness ==
    /\ Quiet
    /\ nchat = 12
    /\ req[1].resp.status = 200
    /\ LET T == Transcript("default")
       IN /\ Len(T) = 21
          /\ T[21] = Turn("assistant", C_FULL)
          /\ T[20] = Turn("user", req[1].userContent)
          /\ T[1] = SystemTurn

\* The transcript a successful request r leaves when it runs alone on a
\* session whose transcript is T (<<>> when the session is not registered).
RunAlone(T, r) ==
    Policy(Append(Append(IF T = <<>> THEN <<SystemTurn>> ELSE T,
                         Turn("user", req[r].userContent)),
                  Turn("assistant", req[r].aiContent.v)))

\* C17: when two requests on one session were both suspended at the
\* provider call and both succeeded, the registered transcript is the one
\* that running them one after the other, in some order, produces.  (The
\* second activation is only taken while the first is suspended, so two
\* answered activations after two requests are two that overlapped.)
C17_SequentiallyConsistent ==
    (/\ nchat = 2
     /\ \A r \in {1, 2} : /\ req[r].pc = "done"
                          /\ req[r].resp.status = 200
                          /\ req[r].sessionId = "default")
    => \E k \in Seeds, a, b \in {1, 2} :
          /\ a # b
          /\ Transcript("default") =
                RunAlone(RunAlone(IF k = 0 THEN <<>> ELSE SeedTranscript(k), a), b)

\* The transcript registered for session s after the step.
TranscriptAfter(s) ==
    IF conversationHistory'[s] = 0 THEN <<>> ELSE heap'[conversationHistory'[s]]

\* C18: a chat request on s that was awaiting the provider when s was reset
\* leaves the registry's entry for s as it is when it completes: it neither
\* registers its own (pre-reset) transcript again nor replaces a transcript
\* created for s after the reset.
C18_ResetNotUndone ==
    [][\A r \in Reqs :
          (Completes(r) /\ req[r].resetDuring) =>
              TranscriptAfter(req[r].sessionId) = Transcript(req[r].sessionId)]_vars

\* The positions of T, among those in P, that hold an assistant turn of
\* content c.
AssistantAt(T, P, c) == {i \in P : T[i] = Turn("assistant", c)}

\* The positions of T with fewer than 20 newer turns after them once one
\* more turn is added.
NotYetOld(T) == {i \in 1..Len(T) : Len(T) - i + 1 < KeepLast}

\* C19: in a step that does not reset s, the assistant turns of the
\* transcript registered for s that would, even with the turn the step may
\* add, have fewer than 20 newer turns after them are all still in the
\* transcript registered afterwards: for every reply content, the transcript
\* afterwards holds at least as many assistant turns of that content.
C19_AssistantTurnStays ==
    [][\A s \in SessionIds :
          nreset' = nreset =>
              LET T == Transcript(s)
                  U == TranscriptAfter(s)
              IN \A i \in NotYetOld(T) :
                    T[i].role = "assistant" =>
                        Cardinality(AssistantAt(U, 1..Len(U), T[i].content))
                            >= Cardinality(AssistantAt(T, NotYetOld(T), T[i].content))]_vars

RECURSIVE AssistantCount(_)
AssistantCount(T) ==
    IF T = <<>> THEN 0
    ELSE (IF Head(T).role = "assistant" THEN 1 ELSE 0) + AssistantCount(Tail(T))

\* C20: the step in which a chat request returns the 500 fallback adds no
\* assistant turn to a registered transcript.
C20_FallbackAppendsNoAssistant ==
    [][\A r \in Reqs, s \in SessionIds :
          (Completes(r) /\ req'[r].resp.status = 500) =>
              AssistantCount(TranscriptAfter(s)) = AssistantCount(Transcript(s))]_vars

\* C21: a chat request received while no credential is configured leaves
\* the registry and every transcript as they were, and the request is
\* answered without a provider call.
C21_NoKeyLeavesRegistry ==
    [][(nchat' = nchat + 1 /\ ~Truthy(env.GROQ_API_KEY)) =>
          /\ conversationHistory' = conversationHistory
          /\ heap' = heap
          /\ \A r \in Reqs :
                req'[r] # req[r] =>
                    /\ req'[r].pc = "done"
                    /\ req'[r].calls = 0
                    /\ req'[r].fetched = "none"]_vars

\* Two requests were answered without a credential on a fresh worker and
\* no session exists.
C21_Witness ==
    /\ ~Truthy(env.GROQ_API_KEY)
    /\ nchat = 2
    /\ req[1].resp = NoKeyResponse
    /\ req[1].calls = 0
    /\ Registered = {}

\* Nothing is pending in the avatar: no timer, no utterance, no event.
AvatarQuiet ==
    /\ avatar.speakTimers = <<>>
    /\ avatar.fallbackTimer = 0
    /\ avatar.queue = <<>>
    /\ avatar.events = <<>>

\* C22: onMessagePlayed is called exactly once for each message delivered
\* to the avatar: never twice, at once when the text is empty, and once
\* nothing is pending any more it has been called for every message.
C22_PlayedExactlyOnce ==
    \A k \in 1..Len(avatar.text) :
        /\ avatar.played[k] <= 1
        /\ avatar.text[k] = "" => avatar.played[k] = 1
        /\ AvatarQuiet => avatar.played[k] = 1

\* The same where speech synthesis is available.
PlayedExactlyOnceWithSpeech ==
    avatar.tts => C22_PlayedExactlyOnce

====
